---- MODULE Spec2Model ----
(***************************************************************************)
(* Model of intersections_tool/lib.py: the white-coverage measure of a     *)
(* captured image, the get_coverage sequence (pfx, render layer, capture,  *)
(* scan of the capture directory, clean-up) and get_time_slider_range.     *)
(*                                                                         *)
(* Three specifications share the module:                                  *)
(*   SpecWhite  get_white_coverage applied to one image                    *)
(*   Spec       one call of get_coverage, statement by statement           *)
(*   SpecRange  one call of get_time_slider_range                          *)
(*                                                                         *)
(* Python's None is the empty sequence <<>>, a supplied value v is <<v>>.  *)
(* A float quotient a / b is kept as the exact fraction [num, den].        *)
(***************************************************************************)
EXTENDS Integers, Sequences, FiniteSets, TLC

VARIABLES
    \* get_white_coverage
    wpc,            \* "call" before the call, "done" after it
    img,            \* what png.Reader(filename=...).read() yields
    white,          \* the value returned
    \* get_coverage
    pc,             \* position inside get_coverage
    arg_start,      \* start_frame as the caller passed it
    arg_end,        \* end_frame as the caller passed it
    delete_pfx,     \* delete_pfx as the caller passed it
    playback,       \* the scene's playback range <<min, max>>
    rendered,       \* frame -> image the host renders at that frame
    start_frame,    \* local start_frame once resolved
    end_frame,      \* local end_frame once resolved
    scene,          \* the nodes that exist in the scene
    tagged,         \* the nodes that carry the attribute intersections_tool
    pfx,            \* local pfx (transform of the pfx created by this call)
    render_layer_nodes, \* local list [shader, shading_group, layer]
    node_idx,       \* position of the clean-up loop in render_layer_nodes
    deleted,        \* <<node, call that deleted it>>, for this call's deletions
    dir_exists,     \* whether the temporary capture directory exists
    files,          \* the frames whose png is in the capture directory
    listing,        \* what os.listdir returned
    file_idx,       \* position of the scan loop in listing
    frame_count,    \* local frame_count
    data,           \* local data, the list returned
    \* get_time_slider_range
    rpc,            \* "call" before the call, "done" after it
    highlighted,
    withinHighlighted,
    highlightedOnly,
    rangeVisible,   \* cmds.timeControl(..., rangeVisible=True)
    rangeArray,     \* cmds.timeControl(..., rangeArray=True)
    minmaxTime,     \* <<playbackOptions(minTime), playbackOptions(maxTime)>>
    result          \* the value returned

whiteVars == <<wpc, img, white>>
coverageVars == <<pc, arg_start, arg_end, delete_pfx, playback, rendered,
                  start_frame, end_frame, scene, tagged, pfx,
                  render_layer_nodes, node_idx, deleted, dir_exists, files,
                  listing, file_idx, frame_count, data>>
rangeVars == <<rpc, highlighted, withinHighlighted, highlightedOnly,
               rangeVisible, rangeArray, minmaxTime, result>>
vars == <<whiteVars, coverageVars, rangeVars>>

None == <<>>

(***************************************************************************)
(* Bounds of the model.                                                    *)
(***************************************************************************)
MaxPixels == 4
MaxFrame == 2

(***************************************************************************)
(* Images.  png.Reader.read() yields (width, height, rows, info); each row *)
(* is the flat list of the channel values of its pixels, planes values per *)
(* pixel.                                                                   *)
(***************************************************************************)
ChannelMax == 255
Channels == 4

\* RGBA pixels the images are drawn from: transparent black, opaque black,
\* opaque red, opaque white, half-transparent grey.
Palette ==
    { <<0, 0, 0, 0>>, <<0, 0, 0, 255>>, <<255, 0, 0, 255>>,
      <<255, 255, 255, 255>>, <<128, 128, 128, 128>> }

\* The pixel as stored with 1 (L), 2 (LA), 3 (RGB) or 4 (RGBA) planes.
Stored(p, planes) ==
    CASE planes = 1 -> <<p[1]>>
      [] planes = 2 -> <<p[1], p[4]>>
      [] planes = 3 -> <<p[1], p[2], p[3]>>
      [] OTHER      -> p

RECURSIVE Flatten(_)
Flatten(seqs) ==
    IF seqs = <<>> THEN <<>> ELSE Head(seqs) \o Flatten(Tail(seqs))

\* The image of w x h pixels px[y][x], stored with the given planes.
Image(w, h, planes, px) ==
    [ width  |-> w,
      height |-> h,
      planes |-> planes,
      rows   |-> [y \in 1..h |->
                    Flatten([x \in 1..w |-> Stored(px[y][x], planes)])] ]

\* The images of at most maxPixels pixels, with planes drawn from planeSet.
Images(maxPixels, planeSet) ==
    UNION { UNION { { Image(wh[1], wh[2], planes, px) :
                        px \in [1..wh[2] -> [1..wh[1] -> Palette]] } :
                    planes \in planeSet } :
            wh \in { d \in (1..maxPixels) \X (1..maxPixels) :
                        d[1] * d[2] <= maxPixels } }

RECURSIVE SumSeq(_)
\* Python's sum(row).
SumSeq(s) == IF s = <<>> THEN 0 ELSE Head(s) + SumSeq(Tail(s))

\* values_max had the image three channels (alpha left out of the maximum).
ValuesMaxRGB(pixel_count) == pixel_count * 3 * ChannelMax

\* values_max: "a full white image has 255 in RGBA".
ValuesMax(pixel_count) == pixel_count * Channels * ChannelMax

RECURSIVE ValuesCount(_)
\* The loop "for row in data[2]: values_count += sum(row)".
ValuesCount(rows) ==
    IF rows = <<>> THEN 0 ELSE SumSeq(Head(rows)) + ValuesCount(Tail(rows))

\* get_white_coverage: values_count / values_max, as an exact fraction.
GetWhiteCoverage(image) ==
    [ num |-> ValuesCount(image.rows),
      den |-> ValuesMax(image.width * image.height) ]

\* Equality and order of fractions with positive denominators.
RatEq(a, b) == a.num * b.den = b.num * a.den
RatLeq(a, b) == a.num * b.den <= b.num * a.den
Rat(n, d) == [num |-> n, den |-> d]


(***************************************************************************)
(* The three calls are modelled apart: while one specification runs, the   *)
(* variables of the other two rest.                                        *)
(***************************************************************************)
WhiteIdle == wpc = "idle" /\ img = None /\ white = None

CoverageIdle ==
    /\ pc = "idle"
    /\ arg_start = None /\ arg_end = None /\ delete_pfx = FALSE
    /\ playback = None /\ rendered = None
    /\ start_frame = None /\ end_frame = None
    /\ scene = {} /\ tagged = {} /\ pfx = None
    /\ render_layer_nodes = None /\ node_idx = 0 /\ deleted = {}
    /\ dir_exists = FALSE /\ files = {} /\ listing = None /\ file_idx = 0
    /\ frame_count = None /\ data = None

RangeIdle ==
    /\ rpc = "idle"
    /\ highlighted = FALSE /\ withinHighlighted = FALSE
    /\ highlightedOnly = FALSE /\ rangeVisible = FALSE
    /\ rangeArray = None /\ minmaxTime = None /\ result = None

(***************************************************************************)
(* SpecWhite: get_white_coverage(file_path) on one image.                  *)
(***************************************************************************)
InitWhite ==
    /\ wpc = "call"
    /\ img \in Images(MaxPixels, 1..Channels)
    /\ white = None
    /\ CoverageIdle
    /\ RangeIdle

GetWhiteCoverageCall ==
    /\ wpc = "call"
    /\ white' = GetWhiteCoverage(img)
    /\ wpc' = "done"
    /\ UNCHANGED <<img, coverageVars, rangeVars>>

NextWhite == GetWhiteCoverageCall

SpecWhite == InitWhite /\ [][NextWhite]_vars

(***************************************************************************)
(* Claims about get_white_coverage (checked under SpecWhite).              *)
(***************************************************************************)
\* Pixel x of a row of an RGBA image, and whether it is black (R = G = B = 0).
PixelAt(row, x) == SubSeq(row, (x - 1) * Channels + 1, x * Channels)
IsBlack(p) == p[1] = 0 /\ p[2] = 0 /\ p[3] = 0

NonBlackPixels(image) ==
    Cardinality({ yx \in (1..image.height) \X (1..image.width) :
                    ~IsBlack(PixelAt(image.rows[yx[1]], yx[2])) })

AllChannelsAre(image, v) ==
    \A y \in 1..image.height :
        \A i \in 1..Len(image.rows[y]) : image.rows[y][i] = v

\* C1 (as claimed): for an RGBA image the value returned is the number of
\* non-black pixels divided by width * height; an all-black image gives 0
\* whatever its alpha channel holds.
C1_FractionOfNonBlackPixels ==
    (wpc = "done" /\ img.planes = Channels) =>
        RatEq(white, Rat(NonBlackPixels(img), img.width * img.height))

\* C2: the value returned lies in 0..1 for every image of 8-bit values with
\* at most 4 channels per pixel, and is 1 when all 4 RGBA channels of every
\* pixel are 255.
C2_CoverageInUnitRange ==
    wpc = "done" =>
        /\ RatLeq(Rat(0, 1), white)
        /\ RatLeq(white, Rat(1, 1))
        /\ (img.planes = Channels /\ AllChannelsAre(img, ChannelMax)) =>
                RatEq(white, Rat(1, 1))

\* C2 witness: a full white RGBA image of several pixels has been measured
\* and the value returned is 1.
C2_Witness ==
    /\ wpc = "done"
    /\ img.planes = Channels
    /\ img.width * img.height > 1
    /\ AllChannelsAre(img, ChannelMax)
    /\ RatEq(white, Rat(1, 1))

(***************************************************************************)
(* Spec: one call of get_coverage(camera, start_frame, end_frame,          *)
(* delete_pfx), one action per statement of the function.                  *)
(*                                                                         *)
(* Scene nodes are named by what they are.  A pfx transform and its        *)
(* pfxToon shape are one node (deleting the transform deletes the shape).  *)
(* The collections and the override of the render layer belong to it.     *)
(***************************************************************************)
Frames == 0..MaxFrame

Mesh == "meshShape1"
PfxPrev == "pfxToon_prev"
PfxNew == "pfxToon_new"
Shader == "intersections_background"
ShadingGroup == "intersections_backgroundSG"
Layer == "intersections"
LayerMembers == {"shapes", "except_pfx", "material_override"}

RenderLayerDelete == "renderLayer.delete"
PymelDelete == "pymel.core.delete"

\* What the viewport shows of a frame: nothing (black, opaque) or
\* intersection lines all over (white, opaque).
FrameImages ==
    { Image(1, 1, Channels, <<<<p>>>>) :
        p \in { <<0, 0, 0, 255>>, <<255, 255, 255, 255>> } }

Optional(S) == {None} \cup { <<v>> : v \in S }

\* Python's "x or default": the default when x is None or is 0.
Or(x, default) == IF x # None /\ x[1] # 0 THEN x[1] ELSE default

\* The orders in which os.listdir may list the files of a directory.
ListDirOrders(fs) ==
    { l \in [1..Cardinality(fs) -> fs] :
        \A i, j \in 1..Cardinality(fs) : i # j => l[i] # l[j] }

IsRenderLayer(node) == node = Layer

\* delete_node without its isinstance test: every node through the generic
\* delete.
DeleteNodeGeneric(node) == PymelDelete

\* delete_node: the call that deletes the node.
DeleteNode(node) ==
    IF IsRenderLayer(node) THEN RenderLayerDelete ELSE PymelDelete

\* The nodes a deleting call removes from the scene: renderLayer.delete
\* takes the layer's collections and overrides with the layer.
Removed(node, call) ==
    IF call = RenderLayerDelete THEN {node} \cup LayerMembers ELSE {node}

InitCoverage ==
    /\ pc = "resolve"
    /\ arg_start \in Optional(Frames)
    /\ arg_end \in Optional(Frames)
    /\ delete_pfx \in BOOLEAN
    /\ playback \in { <<a, b>> : a \in Frames, b \in Frames }
    /\ playback[1] <= playback[2]
    \* the capture is asked for a range that is not empty
    /\ Or(arg_start, playback[1]) <= Or(arg_end, playback[2])
    /\ rendered \in [Frames -> FrameImages]
    /\ start_frame = None /\ end_frame = None
    \* a pfx of an earlier call (tagged), or a pfxToon of the user's, or none
    /\ scene \in { {Mesh}, {Mesh, PfxPrev} }
    /\ tagged \in SUBSET (scene \cap {PfxPrev})
    /\ pfx = None
    /\ render_layer_nodes = None /\ node_idx = 0 /\ deleted = {}
    /\ dir_exists = FALSE /\ files = {} /\ listing = None /\ file_idx = 0
    /\ frame_count = None /\ data = None
    /\ WhiteIdle
    /\ RangeIdle

\* data = []; start_frame = start_frame or playbackOptions(min);
\* end_frame = end_frame or playbackOptions(max)
ResolveDefaults ==
    /\ pc = "resolve"
    /\ data' = <<>>
    /\ start_frame' = Or(arg_start, playback[1])
    /\ end_frame' = Or(arg_end, playback[2])
    /\ pc' = "apply_pfxtoon"
    /\ UNCHANGED <<arg_start, arg_end, delete_pfx, playback, rendered, scene,
                   tagged, pfx, render_layer_nodes, node_idx, deleted,
                   dir_exists, files, listing, file_idx, frame_count,
                   whiteVars, rangeVars>>

\* apply_pfxtoon: delete the pfx of earlier calls, create and tag a new one.
ApplyPfxtoon ==
    /\ pc = "apply_pfxtoon"
    /\ LET previous == { n \in scene \cap {PfxPrev, PfxNew} : n \in tagged }
       IN  /\ scene' = (scene \ previous) \cup {PfxNew}
           /\ tagged' = (tagged \ previous) \cup {PfxNew}
    /\ pfx' = PfxNew
    /\ pc' = "create_material_override"
    /\ UNCHANGED <<arg_start, arg_end, delete_pfx, playback, rendered,
                   start_frame, end_frame, render_layer_nodes, node_idx,
                   deleted, dir_exists, files, listing, file_idx, frame_count,
                   data, whiteVars, rangeVars>>

\* create_material_override: shader, shading group, render layer with its
\* collections and material override.
CreateMaterialOverride ==
    /\ pc = "create_material_override"
    /\ scene' = scene \cup {Shader, ShadingGroup, Layer} \cup LayerMembers
    /\ render_layer_nodes' = <<Shader, ShadingGroup, Layer>>
    /\ pc' = "capture_frames"
    /\ UNCHANGED <<arg_start, arg_end, delete_pfx, playback, rendered,
                   start_frame, end_frame, tagged, pfx, node_idx, deleted,
                   dir_exists, files, listing, file_idx, frame_count, data,
                   whiteVars, rangeVars>>

\* capture_frames: make the temporary directory and capture one png per
\* frame of start_frame..end_frame into it.
CaptureFrames ==
    /\ pc = "capture_frames"
    /\ dir_exists' = TRUE
    /\ files' = start_frame..end_frame
    /\ pc' = "listdir"
    /\ UNCHANGED <<arg_start, arg_end, delete_pfx, playback, rendered,
                   start_frame, end_frame, scene, tagged, pfx,
                   render_layer_nodes, node_idx, deleted, listing, file_idx,
                   frame_count, data, whiteVars, rangeVars>>

\* for f in os.listdir(capture_directory): the directory is listed once, in
\* an order the file system chooses; frame_count = start_frame.
ListDir ==
    /\ pc = "listdir"
    /\ listing' \in ListDirOrders(files)
    /\ file_idx' = 1
    /\ frame_count' = start_frame
    /\ pc' = "scan"
    /\ UNCHANGED <<arg_start, arg_end, delete_pfx, playback, rendered,
                   start_frame, end_frame, scene, tagged, pfx,
                   render_layer_nodes, node_idx, deleted, dir_exists, files,
                   data, whiteVars, rangeVars>>

\* One turn of the loop: data.append([frame_count, get_white_coverage(f)]);
\* frame_count += 1.
ScanFile ==
    /\ pc = "scan"
    /\ file_idx <= Len(listing)
    /\ data' = Append(data, <<frame_count,
                              GetWhiteCoverage(rendered[listing[file_idx]])>>)
    /\ frame_count' = frame_count + 1
    /\ file_idx' = file_idx + 1
    /\ pc' = IF file_idx = Len(listing) THEN "rmtree" ELSE "scan"
    /\ UNCHANGED <<arg_start, arg_end, delete_pfx, playback, rendered,
                   start_frame, end_frame, scene, tagged, pfx,
                   render_layer_nodes, node_idx, deleted, dir_exists, files,
                   listing, whiteVars, rangeVars>>

\* rmtree(capture_directory, ignore_errors=True): the directory and the
\* files in it are removed.  The file system is taken to allow the removal;
\* ignore_errors only matters when it does not.
Rmtree ==
    /\ pc = "rmtree"
    /\ dir_exists' = FALSE
    /\ files' = {}
    /\ node_idx' = 1
    /\ pc' = "delete_nodes"
    /\ UNCHANGED <<arg_start, arg_end, delete_pfx, playback, rendered,
                   start_frame, end_frame, scene, tagged, pfx,
                   render_layer_nodes, deleted, listing, file_idx,
                   frame_count, data, whiteVars, rangeVars>>

\* One turn of "for node in render_layer_nodes: delete_node(node)".
DeleteRenderLayerNode ==
    /\ pc = "delete_nodes"
    /\ node_idx <= Len(render_layer_nodes)
    /\ LET node == render_layer_nodes[node_idx]
           call == DeleteNode(node)
       IN  /\ scene' = scene \ Removed(node, call)
           /\ deleted' = deleted \cup {<<node, call>>}
    /\ node_idx' = node_idx + 1
    /\ pc' = IF node_idx = Len(render_layer_nodes)
             THEN "delete_pfx" ELSE "delete_nodes"
    /\ UNCHANGED <<arg_start, arg_end, delete_pfx, playback, rendered,
                   start_frame, end_frame, tagged, pfx, render_layer_nodes,
                   dir_exists, files, listing, file_idx, frame_count, data,
                   whiteVars, rangeVars>>

\* if delete_pfx: pymel.core.delete(pfx); return data
DeletePfx ==
    /\ pc = "delete_pfx"
    /\ IF delete_pfx
       THEN /\ scene' = scene \ {pfx}
            /\ deleted' = deleted \cup {<<pfx, PymelDelete>>}
       ELSE UNCHANGED <<scene, deleted>>
    /\ pc' = "done"
    /\ UNCHANGED <<arg_start, arg_end, delete_pfx, playback, rendered,
                   start_frame, end_frame, tagged, pfx, render_layer_nodes,
                   node_idx, dir_exists, files, listing, file_idx,
                   frame_count, data, whiteVars, rangeVars>>

Init == InitCoverage

Next ==
    \/ ResolveDefaults
    \/ ApplyPfxtoon
    \/ CreateMaterialOverride
    \/ CaptureFrames
    \/ ListDir
    \/ ScanFile
    \/ Rmtree
    \/ DeleteRenderLayerNode
    \/ DeletePfx

Spec == Init /\ [][Next]_vars

(***************************************************************************)
(* Claims about get_coverage (checked under Spec).                         *)
(***************************************************************************)
\* C3 (as claimed): whatever the order in which the capture directory is
\* listed, the list returned has end_frame - start_frame + 1 entries and its
\* k-th entry (k from 0) is [start_frame + k, white coverage of the image
\* captured at frame start_frame + k].
C3_EntriesMatchTheirFrames ==
    pc = "done" =>
        /\ Len(data) = end_frame - start_frame + 1
        /\ \A k \in 0..(Len(data) - 1) :
              /\ data[k + 1][1] = start_frame + k
              /\ RatEq(data[k + 1][2],
                       GetWhiteCoverage(rendered[start_frame + k]))

\* C4 (as claimed): a start_frame or end_frame the caller supplies, 0
\* included, is the one the capture runs from and to, and the first entry
\* returned is labelled with the supplied start_frame.
C4_SuppliedFramesAreUsed ==
    pc = "done" =>
        /\ arg_start # None =>
              /\ start_frame = arg_start[1]
              /\ data[1][1] = arg_start[1]
              /\ \A i \in 1..Len(listing) : listing[i] >= arg_start[1]
        /\ arg_end # None =>
              /\ end_frame = arg_end[1]
              /\ \A i \in 1..Len(listing) : listing[i] <= arg_end[1]

HighlightedRangeAsReported(range, within) == range

\* "if withinHighlighted: highlightedRange[-1] -= 1; return highlightedRange"
HighlightedRange(range, within) ==
    IF within THEN [range EXCEPT ![Len(range)] = @ - 1] ELSE range

\* The value get_time_slider_range returns; falling off the end of the
\* function returns None.
TimeSliderRange(h, within, only, visible, range, minmax) ==
    IF h = TRUE /\ visible
    THEN HighlightedRange(range, within)
    ELSE IF ~only THEN minmax ELSE None

InitRange ==
    /\ rpc = "call"
    /\ highlighted \in BOOLEAN
    /\ withinHighlighted \in BOOLEAN
    /\ highlightedOnly \in BOOLEAN
    /\ rangeVisible \in BOOLEAN
    /\ rangeArray \in { <<s, e>> : s \in Frames, e \in 1..(MaxFrame + 1) }
    /\ rangeArray[1] < rangeArray[2]
    /\ minmaxTime \in { <<a, b>> : a \in Frames, b \in Frames }
    /\ minmaxTime[1] <= minmaxTime[2]
    /\ result = None
    /\ WhiteIdle
    /\ CoverageIdle

GetTimeSliderRange ==
    /\ rpc = "call"
    /\ result' = TimeSliderRange(highlighted, withinHighlighted,
                                 highlightedOnly, rangeVisible, rangeArray,
                                 minmaxTime)
    /\ rpc' = "done"
    /\ UNCHANGED <<highlighted, withinHighlighted, highlightedOnly,
                   rangeVisible, rangeArray, minmaxTime, whiteVars,
                   coverageVars>>

NextRange == GetTimeSliderRange

SpecRange == InitRange /\ [][NextRange]_vars

\* Whether the call returns the highlighted range.
ReturnsHighlighted == highlighted /\ rangeVisible

====
